---- MODULE Spec2Model ----
(***************************************************************************)
(* Frame-processing pipeline of index_camera_passthrough.                  *)
(*                                                                         *)
(* The model follows src/src/pipeline.rs (Pipeline::new, Pipeline::run,    *)
(* capture_next_frame, set_ipd, submit_cpu_image, EitherGpuFuture),        *)
(* src/src/projection.rs (Projection::new, calculate_mvp, project) and     *)
(* src/src/main.rs (GpuYuyvConverter, main).  GPU work is a list of        *)
(* submissions, each chained after at most one earlier submission; the     *)
(* GPU retires a submission only when the one it is chained after has      *)
(* been retired.  Textures hold a symbolic image: the payload that was     *)
(* uploaded and the stages that have been applied to it.                   *)
(***************************************************************************)
EXTENDS Integers, Sequences, FiniteSets, TLC

\* ------------------------------------------------------------- bounds
MaxFrames == 2
MaxIpd == 1
\* the largest texture width or height
MaxDim == 4
\* the latest instant of the wall clock
MaxTime == 2

IpdValues == 0..MaxIpd

\* ------------------------------------------------------------- values
None == "None"
Output == "output"
Host == "host"

\* textures: [Arc<AttachmentImage>; 2], indexed 0 and 1
textures == [i \in {0, 1} |-> IF i = 0 THEN "t0" ELSE "t1"]
Intermediate == {textures[0], textures[1]}
Textures == Intermediate \cup {Output}

\* DisplayMode: Mono, or Stereo { projection_mode }
DisplayModes == {"Mono", "FromCamera", "FromEye"}

\* i ^ 1 on a texture index
Xor1(i) == 1 - i

IsSome(x) == x # None

\* The bytes the camera delivers for the k-th run().  run() never inspects
\* them, it only copies them to the GPU: one payload, distinct from an
\* image nobody has written, stands for every frame.
FrameBytes(k) == 1

\* An image nobody has written yet.
Undefined == [raw |-> 0, stages |-> <<>>]

\* ----------------------------------------------------------- matrices
\* Matrix4<f32>, scaled down: the x and w rows and columns of the 4x4
\* matrix, <<a, b, c, d>> standing for [a b; c d], with entries in the field
\* of three elements (the smallest in which 2.0 has a reciprocal and in
\* which singular, invertible and non-commuting matrices all exist).
Scalars == {0, 1, 2}

\* the number of scalars
Order == Cardinality(Scalars)

Mod(x) == x % Order

\* -x
Neg(x) == Mod(Order - Mod(x))

\* 1.0 / x, for x # 0
Recip(x) == CHOOSE y \in Scalars : Mod(x * y) = 1

Matrix(a, b, c, d) == <<Mod(a), Mod(b), Mod(c), Mod(d)>>

Matrices == {Matrix(a, b, c, d) : a, b, c, d \in Scalars}

\* Matrix4::identity()
identity == Matrix(1, 0, 0, 1)

\* m * n
Mul(m, n) ==
    Matrix(m[1] * n[1] + m[2] * n[3], m[1] * n[2] + m[2] * n[4],
           m[3] * n[1] + m[4] * n[3], m[3] * n[2] + m[4] * n[4])

Det(m) == Mod(m[1] * m[4] + Neg(m[2] * m[3]))

\* Option<Matrix4<f32>>::None
NoMatrix == <<>>

\* Matrix::try_inverse: None for a singular matrix.
try_inverse(m) ==
    IF Det(m) = 0
    THEN NoMatrix
    ELSE LET r == Recip(Det(m))
         IN  Matrix(r * m[4], r * Neg(m[2]), r * Neg(m[3]), r * m[1])

\* Camera space to HMD space transform, based on physical measurements:
\* a translation by -0.067 (left) and 0.067 (right) along x.
left_cam == Matrix(1, Neg(1), 0, 1)
right_cam == Matrix(1, 1, 0, 1)

\* camera_projection: x is scaled by camera_fov / 2.0.
camera_projection(camera_fov) == Matrix(camera_fov * Recip(2), 0, 0, 1)

\* What calculate_mvp yields when it panics instead of returning.
Panicked == [panic |-> TRUE, mvps |-> <<>>]

\* Faulty variant: a singular view matrix is replaced by the identity
\* instead of stopping the program.
mvp_from_poseNoExpect(mode, overlay_transform, camera_fov, transform, eye_l, eye_r) ==
    LET left_eye == Mul(transform, IF mode = "FromEye" THEN eye_l ELSE left_cam)
        right_eye == Mul(transform, IF mode = "FromEye" THEN eye_r ELSE right_cam)
        left_view == IF try_inverse(left_eye) = NoMatrix THEN identity
                     ELSE try_inverse(left_eye)
        right_view == IF try_inverse(right_eye) = NoMatrix THEN identity
                      ELSE try_inverse(right_eye)
    IN  [panic |-> FALSE,
         mvps |-> <<Mul(Mul(camera_projection(camera_fov), left_view),
                        overlay_transform),
                    Mul(Mul(camera_projection(camera_fov), right_view),
                        overlay_transform)>>]

\* Faulty variant: the measured camera offsets are used in both modes.
mvp_from_poseAlwaysCamera(mode, overlay_transform, camera_fov, transform, eye_l, eye_r) ==
    LET left_view == try_inverse(Mul(transform, left_cam))
        right_view == try_inverse(Mul(transform, right_cam))
    IN  IF left_view = NoMatrix \/ right_view = NoMatrix
        THEN Panicked
        ELSE [panic |-> FALSE,
              mvps |-> <<Mul(Mul(camera_projection(camera_fov), left_view),
                             overlay_transform),
                         Mul(Mul(camera_projection(camera_fov), right_view),
                             overlay_transform)>>]

\* calculate_mvp from the point where it holds the HMD pose `transform` and
\* the two eye-to-head transforms: the eye (or camera) is composed with the
\* pose, inverted (expect: a panic when try_inverse gives None), and
\* multiplied between the camera projection and the overlay transform.
mvp_from_pose(mode, overlay_transform, camera_fov, transform, eye_l, eye_r) ==
    LET left_eye == Mul(transform, IF mode = "FromEye" THEN eye_l ELSE left_cam)
        right_eye == Mul(transform, IF mode = "FromEye" THEN eye_r ELSE right_cam)
        left_view == try_inverse(left_eye)
        right_view == try_inverse(right_eye)
    IN  IF left_view = NoMatrix \/ right_view = NoMatrix
        THEN Panicked
        ELSE [panic |-> FALSE,
              mvps |-> <<Mul(Mul(camera_projection(camera_fov), left_view),
                             overlay_transform),
                         Mul(Mul(camera_projection(camera_fov), right_view),
                             overlay_transform)>>]

VARIABLES
    phase,              \* "init" before Pipeline::new, then "ready" or "failed"
    yuv,                \* Option<GpuYuyvConverter>: None, or the source texture it was built over
    correction,         \* Option<StereoCorrection>: None, or its source texture
    projection,         \* Option<Projection>: None, or its source texture
    projection_params,  \* Option<ProjectionParameters>
    capture,            \* bool
    render_doc,         \* Option<RenderDoc>, TRUE when the capture tool was found
    capturing,          \* whether the capture tool has a frame capture open
    ipd,                \* f32, here a small integer
    camera_config,      \* Option<StereoCamera>, TRUE when present
    texture_id,         \* the parity `texture_id` at the end of Pipeline::new
    texture_dimensions, \* textures[i].dimensions(), <<0, 0>> while not allocated
    new_error,          \* None, or what returned the Err of Pipeline::new
    nframes,            \* how many run() calls have returned
    submitted,          \* the GPU submissions of the tracked runs, in issue order
    done,               \* <<frame, seq>> of the tracked submissions the GPU has retired
    content,            \* what each texture holds
    results,            \* one record per tracked run() call, oldest first
    new_projection,     \* projection.rs: what the last Projection::new call returned
    clock,              \* projection.rs: std::time::Instant::now()
    vr_pose,            \* projection.rs: the HMD pose the VR runtime currently reports
    mvp_call,           \* projection.rs: the last calculate_mvp call, its inputs and outcome
    projected,          \* projection.rs: the last Projection::project call and its outcome
    new_converter,      \* main.rs: what the last GpuYuyvConverter::new call returned
    conversion,         \* main.rs: the last yuyv_buffer_to_vulkan_image call and its outcome
    pc,                 \* main(): the statement the main thread is at
    running,            \* main(): the AtomicBool the Ctrl-C handler clears
    events,             \* main(): the events the VR runtime holds for PollNextEvent
    gpu_work,           \* main(): the GPU work of the conversion: none, pending, complete
    frame_capture,      \* main(): the frame capture of the capture tool: none, started, ended
    vr_overlay,         \* main(): the overlay main() created
    main_exit           \* main(): how main() returned

\* The state of Pipeline and of the GPU queue (pipeline.rs).
pipeline_vars == <<phase, yuv, correction, projection, projection_params, capture,
                   render_doc, capturing, ipd, camera_config, texture_id,
                   texture_dimensions, new_error, nframes, submitted, done, content,
                   results>>

\* The state of a stand-alone Projection and of its environment (projection.rs).
projection_vars == <<new_projection, clock, vr_pose, mvp_call, projected>>

\* The state of a stand-alone GpuYuyvConverter (main.rs).
converter_vars == <<new_converter, conversion>>

\* The state of main() and of what it talks to (main.rs).
main_vars == <<pc, running, events, gpu_work, frame_capture, vr_overlay, main_exit>>

vars == <<phase, yuv, correction, projection, projection_params, capture,
          render_doc, capturing, ipd, camera_config, texture_id, texture_dimensions,
          new_error, nframes, submitted, done, content, results, new_projection, clock, vr_pose, mvp_call, projected,
          new_converter, conversion, pc, running, events, gpu_work, frame_capture,
          vr_overlay, main_exit>>

NoParams == [present |-> FALSE, ipd |-> 0, mode |-> None, mvps |-> <<identity, identity>>]

\* No Projection::new call has been made.
NoProjector == [result |-> "none", created |-> <<>>, source |-> <<0, 0>>, mode |-> None]

\* No calculate_mvp call has been made.
NoMvpCall ==
    [called |-> FALSE, mode |-> None, overlay_transform |-> identity, camera_fov |-> 0,
     frame_time |-> 0, time_origin |-> 0, now |-> 0, pose |-> identity,
     panic |-> FALSE, queried |-> FALSE, offset |-> 0, mvps |-> <<>>]

\* No Projection::project call has been made.
NoProjected ==
    [called |-> FALSE, source |-> <<0, 0>>, output |-> <<0, 0>>, prior |-> 0,
     fail |-> "none", result |-> "none", commands |-> <<>>, lists |-> 0, after |-> 0]

\* No GpuYuyvConverter::new call has been made.
NoConverter ==
    [result |-> "none", created |-> <<>>, device |-> None, w |-> 0, h |-> 0,
     src |-> <<0, 0>>, fail |-> "none"]

\* No overlay has been created.
NoOverlay ==
    [created |-> FALSE, texture |-> <<0, 0>>, work |-> None, shown |-> FALSE,
     destroyed |-> FALSE]

\* main() has not returned.
NotExited == [status |-> "none", at |-> None, quit_acknowledged |-> FALSE]

\* No yuyv_buffer_to_vulkan_image call has been made.
NoConversion ==
    [called |-> FALSE, entry |-> None, len |-> 0, queue |-> None, buffer |-> None,
     output |-> <<0, 0>>, output_device |-> None, fail |-> "none",
     result |-> "none", commands |-> <<>>, submitted |-> FALSE, dst |-> <<0, 0>>]

Init ==
    /\ phase = "init"
    /\ yuv = None
    /\ correction = None
    /\ projection = None
    /\ projection_params = NoParams
    /\ capture = FALSE
    /\ render_doc = FALSE
    /\ capturing = FALSE
    /\ ipd = 0
    /\ camera_config = FALSE
    /\ texture_id = 0
    /\ texture_dimensions = [t \in Intermediate |-> <<0, 0>>]
    /\ new_error = None
    /\ nframes = 0
    /\ submitted = <<>>
    /\ done = {}
    /\ content = [t \in Textures |-> Undefined]
    /\ results = <<>>
    /\ new_projection = NoProjector
    /\ clock = 0
    /\ vr_pose = identity
    /\ mvp_call = NoMvpCall
    /\ projected = NoProjected
    /\ new_converter = NoConverter
    /\ conversion = NoConversion
    /\ pc = "setup"
    /\ running = TRUE
    /\ events = <<>>
    /\ gpu_work = "none"
    /\ frame_capture = "none"
    /\ vr_overlay = NoOverlay
    /\ main_exit = NotExited

\* ------------------------------------------------------ Projection::new
Dims == 1..MaxDim
ProjectionModes == {"FromCamera", "FromEye"}

\* The GPU objects Projection::new creates, in order.
ProjectionObjects == <<"vs", "fs", "render_pass", "pipeline">>

\* The objects of `objects` created before the creation of `fail` returned
\* Err (all of them when nothing failed).
CreatedBefore(objects, fail) ==
    IF \E i \in 1..Len(objects) : objects[i] = fail
    THEN SubSeq(objects, 1, (CHOOSE i \in 1..Len(objects) : objects[i] = fail) - 1)
    ELSE objects

\* Faulty variant: the source is checked for being square.
Projection_newSquare(source, mode, fail) ==
    IF source[1] # source[2]
    THEN [result |-> "Err", created |-> <<>>, source |-> source, mode |-> mode]
    ELSE [result |-> IF fail = "none" THEN "Ok" ELSE "Err",
          created |-> CreatedBefore(ProjectionObjects, fail),
          source |-> source, mode |-> mode]

\* Projection::new(device, source, mode): `w != h * 2` returns Err first;
\* then the shaders, the render pass and the pipeline are created, and the
\* `?` of a shader load or of the pipeline build may return Err.
Projection_new(source, mode, fail) ==
    IF source[1] # source[2] * 2
    THEN [result |-> "Err", created |-> <<>>, source |-> source, mode |-> mode]
    ELSE [result |-> IF fail = "none" THEN "Ok" ELSE "Err",
          created |-> CreatedBefore(ProjectionObjects, fail),
          source |-> source, mode |-> mode]

\* ------------------------------------------------------- Pipeline::new
\* crate::CAMERA_SIZE, the height of the camera frame and the width of one
\* eye's half of it, scaled down to a few texels.
CAMERA_SIZE == 2

\* Faulty variant: the textures are allocated square.
AllocateTexturesSquare == [t \in Intermediate |-> <<CAMERA_SIZE, CAMERA_SIZE>>]

\* [0, 1].try_map(|_| AttachmentImage::with_usage(.., [CAMERA_SIZE * 2, CAMERA_SIZE], ..))
AllocateTextures == [t \in Intermediate |-> <<CAMERA_SIZE * 2, CAMERA_SIZE>>]

\* Faulty variant: the projector is constructed without toggling texture_id.
NewStagesNoProjectorToggle(source_is_yuv, cfg, display_mode) ==
    LET id1 == IF source_is_yuv THEN Xor1(0) ELSE 0
        converter == IF source_is_yuv THEN textures[Xor1(id1)] ELSE None
        id2 == IF cfg THEN Xor1(id1) ELSE id1
        corr == IF cfg THEN textures[Xor1(id2)] ELSE None
        stereo == display_mode # "Mono"
        projector == IF stereo THEN textures[Xor1(id2)] ELSE None
    IN  [yuv |-> converter,
         correction |-> corr,
         projection |-> projector,
         projection_mode |-> IF stereo THEN display_mode ELSE None,
         texture_id |-> id2]

\* Faulty variant: a stage is constructed over textures[texture_id].
NewStagesSourceNotToggled(source_is_yuv, cfg, display_mode) ==
    LET id1 == IF source_is_yuv THEN Xor1(0) ELSE 0
        converter == IF source_is_yuv THEN textures[id1] ELSE None
        id2 == IF cfg THEN Xor1(id1) ELSE id1
        corr == IF cfg THEN textures[id2] ELSE None
        stereo == display_mode # "Mono"
        id3 == IF stereo THEN Xor1(id2) ELSE id2
        projector == IF stereo THEN textures[id3] ELSE None
    IN  [yuv |-> converter,
         correction |-> corr,
         projection |-> projector,
         projection_mode |-> IF stereo THEN display_mode ELSE None,
         texture_id |-> id3]

\* The walk over the configuration: texture_id starts at 0 and is toggled
\* once for every stage that is constructed; a stage is constructed over
\* textures[texture_id ^ 1], read after its own toggle.
NewStages(source_is_yuv, cfg, display_mode) ==
    LET id1 == IF source_is_yuv THEN Xor1(0) ELSE 0
        converter == IF source_is_yuv THEN textures[Xor1(id1)] ELSE None
        id2 == IF cfg THEN Xor1(id1) ELSE id1
        corr == IF cfg THEN textures[Xor1(id2)] ELSE None
        stereo == display_mode # "Mono"
        id3 == IF stereo THEN Xor1(id2) ELSE id2
        projector == IF stereo THEN textures[Xor1(id3)] ELSE None
    IN  [yuv |-> converter,
         correction |-> corr,
         projection |-> projector,
         projection_mode |-> IF stereo THEN display_mode ELSE None,
         texture_id |-> id3]

\* Faulty variant: the parameters are built for the FromEye mode only.
NewParamsFromEyeOnly(projection_mode, ipd0) ==
    IF projection_mode = "FromEye"
    THEN [present |-> TRUE, ipd |-> ipd0, mode |-> projection_mode,
          mvps |-> <<identity, identity>>]
    ELSE NoParams

\* projection_mode.map(|mode| ProjectionParameters { ipd, mvps: identity, mode, .. })
NewParams(projection_mode, ipd0) ==
    IF IsSome(projection_mode)
    THEN [present |-> TRUE, ipd |-> ipd0, mode |-> projection_mode,
          mvps |-> <<identity, identity>>]
    ELSE NoParams

\* Pipeline::new.  The textures are allocated first; the projector is
\* constructed over one of them by Projection::new, whose Err is returned
\* by `?`.  ok = FALSE is any other `?` of the constructor returning Err
\* (texture allocation or another stage constructor failing).  In either
\* case no Pipeline exists.  rd is whether RenderDoc::new() succeeded.
New(source_is_yuv, display_mode, ipd0, cfg, rd, ok) ==
    /\ phase = "init"
    /\ LET st == NewStages(source_is_yuv, cfg, display_mode)
           allocated == AllocateTextures
           built == IF IsSome(st.projection)
                    THEN Projection_new(allocated[st.projection], st.projection_mode,
                                        "none").result
                    ELSE "Ok"
       IN  IF ok /\ built = "Ok"
           THEN /\ phase' = "ready"
                /\ yuv' = st.yuv
                /\ correction' = st.correction
                /\ projection' = st.projection
                /\ projection_params' = NewParams(st.projection_mode, ipd0)
                /\ texture_id' = st.texture_id
                /\ texture_dimensions' = allocated
                /\ ipd' = ipd0
                /\ camera_config' = cfg
                /\ render_doc' = rd
                /\ new_error' = None
           ELSE /\ phase' = "failed"
                /\ new_error' = IF ok THEN "Projection::new" ELSE "other"
                /\ UNCHANGED <<yuv, correction, projection, projection_params,
                               texture_id, texture_dimensions, ipd, camera_config,
                               render_doc>>
    /\ UNCHANGED <<capture, capturing, nframes, submitted, done, content, results>>
    /\ UNCHANGED <<projection_vars, converter_vars, main_vars>>

\* ------------------------------------------------- completion handles
\* A handle is the submission of its run it stands for (0 for none) plus
\* the EitherGpuFuture wrappers put around it, innermost first.
NoFuture == [sub |-> 0, wrap |-> <<>>]
ExecFuture(seq) == [sub |-> seq, wrap |-> <<>>]
EitherLeft(f) == [f EXCEPT !.wrap = Append(@, "Left")]
EitherRight(f) == [f EXCEPT !.wrap = Append(@, "Right")]

\* Every GpuFuture method of EitherGpuFuture matches on the variant and
\* calls the same method of the wrapped future: the wrappers resolve to
\* the submission of the innermost future.
Target(f) == f.sub

\* ------------------------------------------------------ GPU submissions
\* id = [frame, seq]: the seq-th submission issued by the frame-th run().
\* after = the seq of the submission of the same run this one is chained
\* after, 0 for none.
Submission(id, op, src, dst, after, data, ipdv) ==
    [frame |-> id.frame, seq |-> id.seq, op |-> op, src |-> src, dst |-> dst,
     after |-> after, data |-> data, ipd |-> ipdv]

\* submit_cpu_image: copy_buffer_to_image(buffer, output), then
\* cmdbuf.build()?.execute(queue): chained after nothing.
submit_cpu_image(img, output, id) ==
    Submission(id, "upload", Host, output, 0, img, 0)

\* GpuYuyvConverter::yuyv_buffer_to_vulkan_image as Pipeline::run calls it:
\* draws the converter's source into `output`, chained after `after`.
yuyv_buffer_to_vulkan_image(source, after, output, id) ==
    Submission(id, "convert", source, output, Target(after), 0, 0)

\* StereoCorrection::correct: samples the corrector's source, writes
\* `output`, chained after `after`.
correct(source, after, output, id) ==
    Submission(id, "correct", source, output, Target(after), 0, 0)

\* Faulty variant: the command buffer is executed on the queue without being
\* chained after `after`.
projectUnchained(source, after, output, ipdv, id) ==
    Submission(id, "project", source, output, 0, 0, ipdv)

\* Projection::project: copy_image(source, output), the two eye draws of
\* source into output, then after.then_execute(queue, cmdbuf).
project(source, after, output, ipdv, id) ==
    Submission(id, "project", source, output, Target(after), 0, ipdv)

Id(s) == <<s.frame, s.seq>>

\* What a retired submission leaves in its destination.
Effect(s, c) ==
    IF s.op = "upload"
    THEN [raw |-> s.data, stages |-> <<>>]
    ELSE [raw |-> c[s.src].raw, stages |-> Append(c[s.src].stages, s.op)]

\* The runs that stay tracked: the latest one and those with unretired work.
Tracked(sub, dn, n) ==
    {n} \cup {sub[i].frame : i \in {j \in 1..Len(sub) : Id(sub[j]) \notin dn}}

\* The tracked part of the record [submitted, done, results] after n runs.
Track(sub, dn, res, n) ==
    LET keep == Tracked(sub, dn, n) IN
    [submitted |-> SelectSeq(sub, LAMBDA s : s.frame \in keep),
     done |-> {d \in dn : d[1] \in keep},
     results |-> SelectSeq(res, LAMBDA r : r.frame \in keep)]

\* The GPU can retire a submission only after the one it is chained after.
Retirable(s) ==
    /\ Id(s) \notin done
    /\ s.after = 0 \/ <<s.frame, s.after>> \in done

GpuComplete(i) ==
    /\ i \in 1..Len(submitted)
    /\ Retirable(submitted[i])
    /\ \E t \in {Track(submitted, done \cup {Id(submitted[i])}, results, nframes)} :
        /\ submitted' = t.submitted
        /\ done' = t.done
        /\ results' = t.results
    /\ content' = [content EXCEPT ![submitted[i].dst] = Effect(submitted[i], content)]
    /\ UNCHANGED <<phase, yuv, correction, projection, projection_params, capture,
                   render_doc, capturing, ipd, camera_config, texture_id,
                   texture_dimensions, new_error, nframes>>
    /\ UNCHANGED <<projection_vars, converter_vars, main_vars>>

\* --------------------------------------------------------- Pipeline::run
\* The steps a run() can return Err from; a step of an absent stage is
\* never executed.
FailPoints ==
    {"none", "upload"}
        \cup (IF IsSome(yuv) THEN {"convert"} ELSE {})
        \cup (IF IsSome(correction) THEN {"correct"} ELSE {})
        \cup (IF IsSome(projection) THEN {"set_params", "project"} ELSE {})

\* The locals of one run(): the submissions issued so far, the handle
\* `future`, `next_texture`, whether a `?` has returned Err, how many of the
\* issued submissions the call has blocked on, *self.projection_params,
\* whether the call panicked, and the pose calculate_mvp was called with
\* (NoMatrix while it has not been called).
RunStart ==
    [issued |-> <<>>, future |-> NoFuture, next_texture |-> 0, err |-> FALSE,
     retired |-> 0, params |-> projection_params, panic |-> FALSE,
     pose |-> NoMatrix]

ThisFrame == nframes + 1

NextId(rs) == [frame |-> ThisFrame, seq |-> Len(rs.issued) + 1]

\* A stage returned Ok(handle): the handle stands for its submission.
Issue(rs, s) ==
    [rs EXCEPT !.issued = Append(@, s), !.future = ExecFuture(s.seq)]

\* Faulty variant: the error is swallowed and run() carries on.
AbortSwallowed(rs) == rs

\* `?` returns Err: no later step runs, no handle is returned, and the
\* handle built so far is dropped; the GPU backend flushes a dropped,
\* unfinished submission and blocks until the queue has executed it.
Abort(rs) ==
    [rs EXCEPT !.err = TRUE, !.future = NoFuture, !.retired = Len(rs.issued)]

\* A panic unwinds run(): like an early return its locals are dropped, and
\* no value at all is returned to the caller.
Unwind(rs) == [Abort(rs) EXCEPT !.panic = TRUE]

\* The arguments of run() that are the same in every call of this model.
EyeToHead == <<identity, identity>>
OverlayTransform == identity

\* hmd_transform: a regular pose, or a degenerate one.
HmdTransforms == {identity, Matrix(0, 0, 0, 1)}

\* self.correction.as_ref().map(|c| c.fov()).unwrap_or([[1.19; 2]; 2])
Fov == 1

\* Faulty variant: next_texture is not toggled after the upload.
StepUploadNoToggle(rs, img, fail) ==
    IF fail = "upload"
    THEN Abort(rs)
    ELSE Issue(rs, submit_cpu_image(img, textures[rs.next_texture], NextId(rs)))

\* 1. submit image to GPU
StepUpload(rs, img, fail) ==
    IF fail = "upload"
    THEN Abort(rs)
    ELSE [Issue(rs, submit_cpu_image(img, textures[rs.next_texture], NextId(rs)))
            EXCEPT !.next_texture = Xor1(rs.next_texture)]

\* Faulty variant: the converter is handed a fresh handle instead of `future`.
StepConvertUnchained(rs, fail) ==
    IF rs.err THEN rs
    ELSE IF IsSome(yuv)
    THEN IF fail = "convert"
         THEN Abort(rs)
         ELSE LET r1 == Issue(rs, yuyv_buffer_to_vulkan_image(
                                    yuv, NoFuture, textures[rs.next_texture], NextId(rs)))
              IN  [r1 EXCEPT !.next_texture = Xor1(rs.next_texture),
                             !.future = EitherLeft(r1.future)]
    ELSE [rs EXCEPT !.future = EitherRight(rs.future)]

\* Faulty variant: run() waits for the upload before it records the conversion.
StepConvertWaits(rs, fail) ==
    IF rs.err THEN rs
    ELSE IF IsSome(yuv)
    THEN IF fail = "convert"
         THEN Abort(rs)
         ELSE LET r0 == [rs EXCEPT !.retired = Len(rs.issued)]
                  r1 == Issue(r0, yuyv_buffer_to_vulkan_image(
                                    yuv, rs.future, textures[rs.next_texture], NextId(rs)))
              IN  [r1 EXCEPT !.next_texture = Xor1(rs.next_texture),
                             !.future = EitherLeft(r1.future)]
    ELSE [rs EXCEPT !.future = EitherRight(rs.future)]

\* 2. convert YUYV to RGB
StepConvert(rs, fail) ==
    IF rs.err THEN rs
    ELSE IF IsSome(yuv)
    THEN IF fail = "convert"
         THEN Abort(rs)
         ELSE LET r1 == Issue(rs, yuyv_buffer_to_vulkan_image(
                                    yuv, rs.future, textures[rs.next_texture], NextId(rs)))
              IN  [r1 EXCEPT !.next_texture = Xor1(rs.next_texture),
                             !.future = EitherLeft(r1.future)]
    ELSE [rs EXCEPT !.future = EitherRight(rs.future)]

\* Faulty variant: the corrector always draws into the output texture.
StepCorrectToOutput(rs, fail) ==
    IF rs.err THEN rs
    ELSE IF IsSome(correction)
    THEN IF fail = "correct"
         THEN Abort(rs)
         ELSE LET r1 == Issue(rs, correct(correction, rs.future, Output, NextId(rs)))
              IN  [r1 EXCEPT !.future = EitherLeft(r1.future)]
    ELSE [rs EXCEPT !.future = EitherRight(rs.future)]

\* 3. lens correction
StepCorrect(rs, fail) ==
    IF rs.err THEN rs
    ELSE IF IsSome(correction)
    THEN IF fail = "correct"
         THEN Abort(rs)
         ELSE LET dst == IF IsSome(projection)
                         THEN textures[rs.next_texture]
                         ELSE Output
                  r1 == Issue(rs, correct(correction, rs.future, dst, NextId(rs)))
              IN  [r1 EXCEPT !.future = EitherLeft(r1.future)]
    ELSE [rs EXCEPT !.future = EitherRight(rs.future)]

\* Faulty variant: self.ipd is not copied into the projection parameters.
StepProjectStaleIpd(rs, fail, hmd_transform) ==
    IF rs.err THEN rs
    ELSE IF IsSome(projection)
    THEN IF ~rs.params.present
    THEN Unwind(rs)
    ELSE LET lr == mvp_from_pose(rs.params.mode, OverlayTransform, Fov,
                                 hmd_transform, EyeToHead[1], EyeToHead[2])
             p1 == [rs.params EXCEPT !.mvps = lr.mvps]
             r0 == [rs EXCEPT !.params = p1, !.pose = hmd_transform]
         IN  IF lr.panic
             THEN Unwind([rs EXCEPT !.pose = hmd_transform])
             ELSE IF fail \in {"set_params", "project"}
             THEN Abort(r0)
             ELSE LET r1 == Issue(r0, project(projection, rs.future, Output, p1.ipd,
                                              NextId(rs)))
                  IN  [r1 EXCEPT !.future = EitherLeft(r1.future)]
    ELSE [rs EXCEPT !.future = EitherRight(rs.future)]

\* 4. projection: self.projection_params.as_mut().unwrap() panics when the
\* parameters are None; calculate_mvp runs next and may panic; then the
\* MVPs and self.ipd are stored into the parameters, before set_params and
\* project, either of which may return Err.
StepProject(rs, fail, hmd_transform) ==
    IF rs.err THEN rs
    ELSE IF IsSome(projection)
    THEN IF ~rs.params.present
    THEN Unwind(rs)
    ELSE LET lr == mvp_from_pose(rs.params.mode, OverlayTransform, Fov,
                                 hmd_transform, EyeToHead[1], EyeToHead[2])
             p1 == [rs.params EXCEPT !.mvps = lr.mvps, !.ipd = ipd]
             r0 == [rs EXCEPT !.params = p1, !.pose = hmd_transform]
         IN  IF lr.panic
             THEN Unwind([rs EXCEPT !.pose = hmd_transform])
             ELSE IF fail \in {"set_params", "project"}
             THEN Abort(r0)
             ELSE LET r1 == Issue(r0, project(projection, rs.future, Output, p1.ipd,
                                              NextId(rs)))
                  IN  [r1 EXCEPT !.future = EitherLeft(r1.future)]
    ELSE [rs EXCEPT !.future = EitherRight(rs.future)]

\* Faulty variant: the correction is issued before the conversion.
RunBodyCorrectFirst(img, fail, hmd_transform) ==
    StepProject(StepConvert(StepCorrect(StepUpload(RunStart, img, fail), fail), fail),
                fail, hmd_transform)

\* The body of run() between the capture start and the capture stop.
RunBody(img, fail, hmd_transform) ==
    StepProject(StepCorrect(StepConvert(StepUpload(RunStart, img, fail), fail), fail),
                fail, hmd_transform)

\* self.capture when run() returns: cleared at the end of the body, which
\* an early return does not reach.
CaptureAfter(rs) ==
    IF rs.err THEN capture
    ELSE IF capture THEN FALSE ELSE capture

\* One call into the capture tool, made when run() had issued `issued`
\* submissions.
RenderDocCall(name, issued) == [call |-> name, issued |-> issued]

\* The calls run() makes into the capture tool: start_frame_capture before
\* the body when self.capture is set and the tool is present,
\* end_frame_capture after the body under the same condition; an early
\* return or a panic in the body does not reach the second.
RenderDocCalls(rs) ==
    (IF capture /\ render_doc
     THEN <<RenderDocCall("start_frame_capture", 0)>> ELSE <<>>)
        \o (IF ~rs.err /\ capture /\ render_doc
            THEN <<RenderDocCall("end_frame_capture", Len(rs.issued))>> ELSE <<>>)

\* Whether the capture tool is left capturing by run(): as its last call
\* says, and as before when run() made no call.
CapturingAfter(rs) ==
    LET calls == RenderDocCalls(rs)
    IN  IF calls = <<>> THEN capturing
        ELSE calls[Len(calls)].call = "start_frame_capture"

\* The submissions `ops` retired in order.
RECURSIVE Retire(_, _)
Retire(c, ops) ==
    IF ops = <<>> THEN c
    ELSE Retire([c EXCEPT ![Head(ops).dst] = Effect(Head(ops), c)], Tail(ops))

\* What the caller finds of the previous run() when it calls run() again:
\* "none" when there is no handle (first call, or the previous call
\* returned Err), else whether that handle has completed.
Previous ==
    IF \E k \in 1..Len(results) : results[k].frame = nframes /\ results[k].ok
    THEN LET r == results[CHOOSE k \in 1..Len(results) : results[k].frame = nframes]
         IN  IF <<nframes, Target(r.handle)>> \in done THEN "complete" ELSE "pending"
    ELSE "none"

Run(img, fail, hmd_transform) ==
    /\ phase = "ready"
    /\ nframes < MaxFrames
    /\ fail \in FailPoints
    /\ \E rs \in {RunBody(img, fail, hmd_transform)} :
       \E t \in {Track(submitted \o rs.issued,
                      done \cup {<<ThisFrame, k>> : k \in 1..rs.retired},
                      Append(results,
                             [frame |-> ThisFrame,
                              ok |-> ~rs.err,
                              handle |-> rs.future,
                              previous |-> Previous,
                              pose |-> rs.pose]),
                      ThisFrame)} :
           /\ submitted' = t.submitted
           /\ done' = t.done
           /\ results' = t.results
           /\ content' = Retire(content, SubSeq(rs.issued, 1, rs.retired))
           /\ projection_params' = rs.params
           /\ capture' = CaptureAfter(rs)
           /\ capturing' = CapturingAfter(rs)
           /\ phase' = IF rs.panic THEN "panicked" ELSE phase
    /\ nframes' = ThisFrame
    /\ UNCHANGED <<yuv, correction, projection, render_doc, ipd,
                   camera_config, texture_id, texture_dimensions, new_error>>
    /\ UNCHANGED <<projection_vars, converter_vars, main_vars>>

capture_next_frame ==
    /\ phase = "ready"
    /\ capture' = TRUE
    /\ UNCHANGED <<phase, yuv, correction, projection, projection_params,
                   render_doc, capturing, ipd, camera_config, texture_id,
                   texture_dimensions, new_error, nframes, submitted, done, content,
                   results>>
    /\ UNCHANGED <<projection_vars, converter_vars, main_vars>>

set_ipd(x) ==
    /\ phase = "ready"
    /\ ipd' = x
    /\ UNCHANGED <<phase, yuv, correction, projection, projection_params, capture,
                   render_doc, capturing, camera_config, texture_id,
                   texture_dimensions, new_error, nframes, submitted, done, content,
                   results>>
    /\ UNCHANGED <<projection_vars, converter_vars, main_vars>>

Next ==
    \/ \E y \in BOOLEAN, m \in DisplayModes, i \in IpdValues, c \in BOOLEAN,
          rd \in BOOLEAN, ok \in BOOLEAN :
            New(y, m, i, c, rd, ok)
    \/ \E fail \in {"none", "upload", "convert", "correct", "set_params", "project"},
          hmd_transform \in HmdTransforms :
            \* a degenerate pose stops run() before set_params and project,
            \* and is not looked at when an earlier step has failed
            /\ hmd_transform # identity => fail = "none"
            /\ Run(FrameBytes(ThisFrame), fail, hmd_transform)
    \/ capture_next_frame
    \/ \E x \in IpdValues : set_ipd(x)
    \/ \E i \in 1..Len(submitted) : GpuComplete(i)

Spec == Init /\ [][Next]_vars

\* --------------------------------------------- projection.rs: Projection
NewProjection(source, mode, fail) ==
    /\ new_projection.result = "none"
    /\ new_projection' = Projection_new(source, mode, fail)
    /\ UNCHANGED <<clock, vr_pose, mvp_call, projected>>
    /\ UNCHANGED <<pipeline_vars, converter_vars, main_vars>>

\* The poses the VR runtime can report: at rest, turned, and the zeroed
\* pose of a device that is not tracked.
Poses == {identity, Matrix(0, 1, Neg(1), 0), Matrix(0, 0, 0, 1)}

\* GetEyeToHeadTransform(Eye_Left), (Eye_Right)
EyeToHeadTransform == <<identity, identity>>

\* Faulty variant: a frame time later than now is clamped to now.
calculate_mvpSaturating(mode, overlay_transform, camera_fov, ivrsystem, frame_time, time_origin, now) ==
    LET elapsed == IF now - time_origin < frame_time
                   THEN 0 ELSE now - time_origin - frame_time
        lr == mvp_from_pose(mode, overlay_transform, camera_fov, ivrsystem,
                            EyeToHeadTransform[1], EyeToHeadTransform[2])
    IN  [panic |-> lr.panic, queried |-> TRUE, offset |-> 0 - elapsed,
         mvps |-> lr.mvps]

\* Projection::calculate_mvp.  `now` is Instant::now() and `ivrsystem` the
\* pose the runtime answers GetDeviceToAbsoluteTrackingPose with.
\* Instant::now() - time_origin - frame_time is a Duration: subtracting a
\* frame_time longer than the time since time_origin panics.
calculate_mvp(mode, overlay_transform, camera_fov, ivrsystem, frame_time, time_origin, now) ==
    IF now - time_origin < frame_time
    THEN [panic |-> TRUE, queried |-> FALSE, offset |-> 0, mvps |-> <<>>]
    ELSE LET elapsed == now - time_origin - frame_time
             lr == mvp_from_pose(mode, overlay_transform, camera_fov, ivrsystem,
                                 EyeToHeadTransform[1], EyeToHeadTransform[2])
         IN  [panic |-> lr.panic, queried |-> TRUE, offset |-> 0 - elapsed,
              mvps |-> lr.mvps]

\* A call of calculate_mvp on the Projection that was constructed last.
\* time_origin is an Instant taken from the clock, so it is not later than
\* now.
CalculateMvp(overlay_transform, camera_fov, frame_time, time_origin) ==
    /\ new_projection.result = "Ok"
    /\ time_origin <= clock
    /\ LET out == calculate_mvp(new_projection.mode, overlay_transform, camera_fov,
                                vr_pose, frame_time, time_origin, clock)
       IN  mvp_call' = [called |-> TRUE,
                        mode |-> new_projection.mode,
                        overlay_transform |-> overlay_transform,
                        camera_fov |-> camera_fov,
                        frame_time |-> frame_time,
                        time_origin |-> time_origin,
                        now |-> clock,
                        pose |-> vr_pose,
                        panic |-> out.panic,
                        queried |-> out.queried,
                        offset |-> out.offset,
                        mvps |-> out.mvps]
    /\ UNCHANGED <<new_projection, clock, vr_pose, projected>>
    /\ UNCHANGED <<pipeline_vars, converter_vars, main_vars>>

\* The wall clock advances.
Tick ==
    /\ clock < MaxTime
    /\ clock' = clock + 1
    /\ UNCHANGED <<new_projection, vr_pose, mvp_call, projected>>
    /\ UNCHANGED <<pipeline_vars, converter_vars, main_vars>>

\* The wearer moves the headset, or tracking is lost.
HeadMoves(pose) ==
    /\ pose # vr_pose
    /\ vr_pose' = pose
    /\ UNCHANGED <<new_projection, clock, mvp_call, projected>>
    /\ UNCHANGED <<pipeline_vars, converter_vars, main_vars>>

NextProjection ==
    \/ \E w, h \in Dims, mode \in ProjectionModes, fail \in {"none", "vs", "fs", "pipeline"} :
            NewProjection(<<w, h>>, mode, fail)
    \/ \E overlay \in {identity, Matrix(1, 1, 0, 1)}, camera_fov \in {1, 2},
          frame_time \in 0..MaxTime, time_origin \in 0..MaxTime :
            CalculateMvp(overlay, camera_fov, frame_time, time_origin)
    \/ Tick
    \/ \E pose \in Poses : HeadMoves(pose)

SpecProjection == Init /\ [][NextProjection]_vars

\* ------------------------------------------------- Projection::project
\* cmdbuf.copy_image(source, [0, 0, 0], .., output, [0, 0, 0], .., extent):
\* the command is refused when the extent reaches outside the destination;
\* a destination larger than the extent is accepted.
copy_image(extent, output) == extent[1] <= output[1] /\ extent[2] <= output[2]

\* A draw into the framebuffer restricted to the viewport that starts at
\* column `origin` and is `width` columns wide and `height` rows high.
Draw(eye, origin, width, height) ==
    [cmd |-> "draw", eye |-> eye, origin |-> origin, width |-> width,
     height |-> height]

\* The steps of Projection::project that can return Err.
ProjectFailPoints == {"none", "framebuffer", "copy_image", "left", "right", "execute"}

\* The outcome of a Projection::project call: the commands recorded into
\* command lists, how many lists were built, and the handle the execution
\* was chained after (0 when nothing was executed).
ProjectOutcome(res, cmds, built, chained) ==
    [result |-> res, commands |-> cmds, lists |-> built, after |-> chained]

\* Projection::project(after, queue, output, ..): the framebuffer is built
\* over `output`; [w, h] are the dimensions of self.source; one command
\* buffer records copy_image of [w, h] from source to output, the left draw
\* with viewport origin 0 and dimensions [w / 2, h], and the right draw
\* with viewport origin w / 2 and the same dimensions; the buffer is built
\* and executed by after.then_execute.  Every `?` may return Err.
Projection_project(self, prior, output, fail) ==
    LET w == self.source[1]
        h == self.source[2]
        copy == [cmd |-> "copy_image", extent |-> <<w, h>>]
        left == Draw("left", 0, w \div 2, h)
        right == Draw("right", w \div 2, w \div 2, h)
    IN  IF fail = "framebuffer"
        THEN ProjectOutcome("Err", <<>>, 0, 0)
        ELSE IF fail = "copy_image" \/ ~copy_image(<<w, h>>, output)
        THEN ProjectOutcome("Err", <<>>, 0, 0)
        ELSE IF fail = "left"
        THEN ProjectOutcome("Err", <<copy>>, 0, 0)
        ELSE IF fail = "right"
        THEN ProjectOutcome("Err", <<copy, left>>, 0, 0)
        ELSE IF fail = "execute"
        THEN ProjectOutcome("Err", <<copy, left, right>>, 1, 0)
        ELSE ProjectOutcome("Ok", <<copy, left, right>>, 1, prior)

\* A call of project on the Projection that was constructed last, with a
\* destination image of any dimensions and a prior handle.
Project(prior, output, fail) ==
    /\ new_projection.result = "Ok"
    /\ ~projected.called
    /\ LET out == Projection_project(new_projection, prior, output, fail)
       IN  projected' = [called |-> TRUE, source |-> new_projection.source,
                         output |-> output, prior |-> prior, fail |-> fail,
                         result |-> out.result, commands |-> out.commands,
                         lists |-> out.lists, after |-> out.after]
    /\ UNCHANGED <<new_projection, clock, vr_pose, mvp_call>>
    /\ UNCHANGED <<pipeline_vars, converter_vars, main_vars>>

\* The handles a caller can pass as `after`: those of two earlier submissions.
PriorHandles == {1, 2}

NextProject ==
    \/ \E w, h \in Dims, mode \in ProjectionModes, fail \in {"none", "vs", "fs", "pipeline"} :
            NewProjection(<<w, h>>, mode, fail)
    \/ \E prior \in PriorHandles, w, h \in Dims, fail \in ProjectFailPoints :
            Project(prior, <<w, h>>, fail)

SpecProject == Init /\ [][NextProject]_vars

\* ------------------------------------------- main.rs: GpuYuyvConverter
Devices == {"gpu0", "gpu1"}

\* Format::R8G8B8A8_UNORM: four bytes a texel
BytesPerTexel == 4

ImageBytes(dimensions) == dimensions[1] * dimensions[2] * BytesPerTexel

\* The longest input buffer: one byte more than the largest frame.
MaxLen == 2 * MaxDim * MaxDim + 1

\* The GPU objects GpuYuyvConverter::new creates, in order.
ConverterObjects == <<"vs", "fs", "render_pass", "pipeline", "src", "desc_set">>

\* Faulty variant: an odd width is not rejected.
GpuYuyvConverter_newAnyWidth(device, w, h, fail) ==
    LET created == CreatedBefore(ConverterObjects, fail)
    IN  [result |-> IF fail = "none" THEN "Ok" ELSE "Err",
         created |-> created, device |-> device, w |-> w, h |-> h,
         src |-> IF \E i \in 1..Len(created) : created[i] = "src"
                 THEN <<w \div 2, h>> ELSE <<0, 0>>,
         fail |-> fail]

\* GpuYuyvConverter::new(device, w, h): an odd w returns Err first; then
\* the shaders, render pass, pipeline, the source image of [w / 2, h] and
\* the descriptor set are created, each `?` of which may return Err.
GpuYuyvConverter_new(device, w, h, fail) ==
    IF w % 2 # 0
    THEN [result |-> "Err", created |-> <<>>, device |-> device, w |-> w, h |-> h,
          src |-> <<0, 0>>, fail |-> fail]
    ELSE LET created == CreatedBefore(ConverterObjects, fail)
         IN  [result |-> IF fail = "none" THEN "Ok" ELSE "Err",
              created |-> created, device |-> device, w |-> w, h |-> h,
              src |-> IF \E i \in 1..Len(created) : created[i] = "src"
                      THEN <<w \div 2, h>> ELSE <<0, 0>>,
              fail |-> fail]

NewConverter(device, w, h, fail) ==
    /\ new_converter.result = "none"
    /\ new_converter' = GpuYuyvConverter_new(device, w, h, fail)
    /\ UNCHANGED conversion
    /\ UNCHANGED <<pipeline_vars, projection_vars, main_vars>>

\* cmdbuf.copy_buffer_to_image(subbuffer, image): the command is refused
\* (CopyBufferImageError) when the buffer holds fewer bytes than the image;
\* a longer buffer is accepted and its first bytes are copied.
copy_buffer_to_image(len, image) == len >= ImageBytes(image)

\* The commands one conversion records, in order.
ConversionCommands ==
    <<"copy_buffer_to_image", "begin_render_pass", "draw", "end_render_pass">>

\* The outcome of a conversion call.
Outcome(res, cmds, executed, image) ==
    [result |-> res, commands |-> cmds, submitted |-> executed, dst |-> image]

\* Faulty variant: only the queue's device is compared.
GpuYuyvConverter_yuyv_buffer_to_vulkan_imageQueueOnly(self, len, queue, buffer, fail) ==
    IF queue # self.device
    THEN Outcome("Err", <<>>, FALSE, <<0, 0>>)
    ELSE IF fail = "chunk" \/ ~copy_buffer_to_image(len, self.src)
    THEN Outcome("Err", <<>>, FALSE, <<0, 0>>)
    ELSE IF fail = "dst"
    THEN Outcome("Err", SubSeq(ConversionCommands, 1, 1), FALSE, <<0, 0>>)
    ELSE IF fail = "execute"
    THEN Outcome("Err", ConversionCommands, FALSE, <<self.w, self.h>>)
    ELSE Outcome("Ok", ConversionCommands, TRUE, <<self.w, self.h>>)

\* GpuYuyvConverter::yuyv_buffer_to_vulkan_image(&self, buf, queue, buffer)
\* of main.rs: the device check comes first; then the upload chunk, the
\* copy into self.src, the destination image of [self.w, self.h], the
\* draw, build and execute, each of which may return Err.
GpuYuyvConverter_yuyv_buffer_to_vulkan_image(self, len, queue, buffer, fail) ==
    IF queue # self.device \/ buffer # self.device
    THEN Outcome("Err", <<>>, FALSE, <<0, 0>>)
    ELSE IF fail = "chunk" \/ ~copy_buffer_to_image(len, self.src)
    THEN Outcome("Err", <<>>, FALSE, <<0, 0>>)
    ELSE IF fail = "dst"
    THEN Outcome("Err", SubSeq(ConversionCommands, 1, 1), FALSE, <<0, 0>>)
    ELSE IF fail = "execute"
    THEN Outcome("Err", ConversionCommands, FALSE, <<self.w, self.h>>)
    ELSE Outcome("Ok", ConversionCommands, TRUE, <<self.w, self.h>>)

\* The converter as Pipeline::run calls it, with a destination supplied by
\* the caller: a destination of other dimensions, or a destination or
\* queue of another device, is rejected before anything is recorded.
yuyv_buffer_to_vulkan_image_into(self, queue, output, output_device, fail) ==
    IF queue # self.device \/ output_device # self.device
    THEN Outcome("Err", <<>>, FALSE, <<0, 0>>)
    ELSE IF output # <<self.w, self.h>>
    THEN Outcome("Err", <<>>, FALSE, <<0, 0>>)
    ELSE IF fail # "none"
    THEN Outcome("Err", <<>>, FALSE, <<0, 0>>)
    ELSE Outcome("Ok", SubSeq(ConversionCommands, 2, 4), TRUE, output)

\* The call of the converter in main(): one conversion, on the converter
\* constructed before it.
Convert(len, queue, buffer, fail) ==
    /\ new_converter.result = "Ok"
    /\ ~conversion.called
    /\ LET out == GpuYuyvConverter_yuyv_buffer_to_vulkan_image(
                        new_converter, len, queue, buffer, fail)
       IN  conversion' = [called |-> TRUE, entry |-> "main", len |-> len,
                          queue |-> queue, buffer |-> buffer, output |-> <<0, 0>>,
                          output_device |-> None, fail |-> fail,
                          result |-> out.result, commands |-> out.commands,
                          submitted |-> out.submitted, dst |-> out.dst]
    /\ UNCHANGED new_converter
    /\ UNCHANGED <<pipeline_vars, projection_vars, main_vars>>

\* A call of the converter with a destination texture.
ConvertInto(queue, output, output_device, fail) ==
    /\ new_converter.result = "Ok"
    /\ ~conversion.called
    /\ LET out == yuyv_buffer_to_vulkan_image_into(
                        new_converter, queue, output, output_device, fail)
       IN  conversion' = [called |-> TRUE, entry |-> "yuv", len |-> 0,
                          queue |-> queue, buffer |-> None, output |-> output,
                          output_device |-> output_device, fail |-> fail,
                          result |-> out.result, commands |-> out.commands,
                          submitted |-> out.submitted, dst |-> out.dst]
    /\ UNCHANGED new_converter
    /\ UNCHANGED <<pipeline_vars, projection_vars, main_vars>>

NextConverter ==
    \/ \E device \in Devices, w, h \in Dims,
          fail \in {"none", "vs", "fs", "pipeline", "src", "desc_set"} :
            NewConverter(device, w, h, fail)
    \/ \E len \in 0..MaxLen, queue, buffer \in Devices,
          fail \in {"none", "chunk", "dst", "execute"} :
            Convert(len, queue, buffer, fail)
    \/ \E queue, output_device \in Devices, w, h \in Dims, fail \in {"none", "draw"} :
            ConvertInto(queue, <<w, h>>, output_device, fail)

SpecConverter == Init /\ [][NextConverter]_vars

\* ------------------------------------------------------- main.rs: main
\* The most events the VR runtime holds at a time.
MaxEvents == 2

\* The controller button that ends the program.
ExitButton == 33

\* VREvent_t: the event type and, for a button event, the button.
VREvents ==
    {[eventType |-> "VREvent_ButtonPress", button |-> ExitButton],
     [eventType |-> "VREvent_ButtonPress", button |-> ExitButton - 1],
     [eventType |-> "VREvent_Quit", button |-> 0],
     [eventType |-> "VREvent_Other", button |-> ExitButton]}

\* The camera format main() sets, 1920 x 960 YUYV, scaled down.
CameraFormat == <<4, 2>>

\* The device main() creates everything on.
MainDevice == "gpu0"

\* `?` or the end of main(): main() returns and its locals are dropped; the
\* drop of the overlay handle destroys the overlay.
Return(status, at, acknowledged, ov) ==
    /\ pc' = "exited"
    /\ main_exit' = [status |-> status, at |-> at, quit_acknowledged |-> acknowledged]
    /\ vr_overlay' = IF ov.created THEN [ov EXCEPT !.destroyed = TRUE] ELSE ov

\* main() up to the creation of the upload buffer pool: the capture tool,
\* the camera, the Ctrl-C handler, the Vulkan instance, the VR runtime, the
\* device and the queue.
Setup(ok) ==
    /\ pc = "setup"
    /\ IF ok
       THEN pc' = "converter" /\ UNCHANGED <<main_exit, vr_overlay>>
       ELSE Return("Err", "setup", FALSE, vr_overlay)
    /\ UNCHANGED <<running, events, gpu_work, frame_capture>>
    /\ UNCHANGED <<pipeline_vars, projection_vars, converter_vars>>

\* let converter = GpuYuyvConverter::new(device.clone(), 1920, 960)?;
\* rd.start_frame_capture(..);
CreateConverter(fail) ==
    /\ pc = "converter"
    /\ IF GpuYuyvConverter_new(MainDevice, CameraFormat[1], CameraFormat[2],
                               fail).result = "Ok"
       THEN /\ pc' = "convert"
            /\ frame_capture' = "started"
            /\ UNCHANGED <<main_exit, vr_overlay>>
       ELSE /\ Return("Err", "converter", FALSE, vr_overlay)
            /\ UNCHANGED frame_capture
    /\ UNCHANGED <<running, events, gpu_work>>
    /\ UNCHANGED <<pipeline_vars, projection_vars, converter_vars>>

\* let (frame, _) = CaptureStream::next(&mut video_stream)?;
\* let (future, image) = converter.yuyv_buffer_to_vulkan_image(frame, queue, &buffer)?;
\* The camera delivers a frame of the format that was set; a conversion
\* that returns Ok has submitted its command buffer to the queue.
ConvertFrame(fail) ==
    /\ pc = "convert"
    /\ LET self == GpuYuyvConverter_new(MainDevice, CameraFormat[1], CameraFormat[2],
                                        "none")
           out == GpuYuyvConverter_yuyv_buffer_to_vulkan_image(
                        self, 2 * CameraFormat[1] * CameraFormat[2], MainDevice,
                        MainDevice, fail)
       IN  IF fail # "next" /\ out.result = "Ok"
           THEN /\ pc' = "wait"
                /\ gpu_work' = IF out.submitted THEN "pending" ELSE gpu_work
                /\ UNCHANGED <<main_exit, vr_overlay>>
           ELSE /\ Return("Err", "convert", FALSE, vr_overlay)
                /\ UNCHANGED gpu_work
    /\ UNCHANGED <<running, events, frame_capture>>
    /\ UNCHANGED <<pipeline_vars, projection_vars, converter_vars>>

\* The queue finishes the work submitted to it.
GpuFinish ==
    /\ gpu_work = "pending"
    /\ gpu_work' = "complete"
    /\ UNCHANGED <<pc, running, events, frame_capture, vr_overlay, main_exit>>
    /\ UNCHANGED <<pipeline_vars, projection_vars, converter_vars>>

\* Faulty variant: the wait returns without the fence being signalled.
WaitFenceNoBlock(ok) ==
    /\ pc = "wait"
    /\ IF ok
       THEN /\ pc' = "overlay"
            /\ frame_capture' = "ended"
            /\ UNCHANGED <<main_exit, vr_overlay>>
       ELSE /\ Return("Err", "wait", FALSE, vr_overlay)
            /\ UNCHANGED frame_capture
    /\ UNCHANGED <<running, events, gpu_work>>
    /\ UNCHANGED <<pipeline_vars, projection_vars, converter_vars>>

\* future.then_signal_fence().wait(None)?; rd.end_frame_capture(..);
\* wait(None) blocks with no timeout: it returns Ok only once the fence
\* after the conversion is signalled, or returns Err.
WaitFence(ok) ==
    /\ pc = "wait"
    /\ ok => gpu_work = "complete"
    /\ IF ok
       THEN /\ pc' = "overlay"
            /\ frame_capture' = "ended"
            /\ UNCHANGED <<main_exit, vr_overlay>>
       ELSE /\ Return("Err", "wait", FALSE, vr_overlay)
            /\ UNCHANGED frame_capture
    /\ UNCHANGED <<running, events, gpu_work>>
    /\ UNCHANGED <<pipeline_vars, projection_vars, converter_vars>>

\* vroverlay.create_overlay(APP_KEY, APP_NAME)?; SetOverlayFlag(..)?;
CreateOverlay(fail) ==
    /\ pc = "overlay"
    /\ IF fail = "create_overlay"
       THEN Return("Err", "overlay", FALSE, vr_overlay)
       ELSE IF fail = "SetOverlayFlag"
       THEN Return("Err", "overlay", FALSE, [vr_overlay EXCEPT !.created = TRUE])
       ELSE /\ pc' = "texture"
            /\ vr_overlay' = [vr_overlay EXCEPT !.created = TRUE]
            /\ UNCHANGED main_exit
    /\ UNCHANGED <<running, events, gpu_work, frame_capture>>
    /\ UNCHANGED <<pipeline_vars, projection_vars, converter_vars>>

\* overlay.set_texture(1920, 960, image, ..)?: the handle keeps the image
\* and hands it to SetOverlayTexture, whose error is returned.  `work` is
\* the state of the conversion's GPU work when the image is handed over.
SetTexture(ok) ==
    /\ pc = "texture"
    /\ LET ov == [vr_overlay EXCEPT !.texture = CameraFormat, !.work = gpu_work]
       IN  IF ok
           THEN pc' = "show" /\ vr_overlay' = ov /\ UNCHANGED main_exit
           ELSE Return("Err", "texture", FALSE, ov)
    /\ UNCHANGED <<running, events, gpu_work, frame_capture>>
    /\ UNCHANGED <<pipeline_vars, projection_vars, converter_vars>>

\* SetOverlayTransformAbsolute(..); ShowOverlay(overlay.as_raw()).into_result()?;
ShowOverlay(ok) ==
    /\ pc = "show"
    /\ IF ok
       THEN /\ pc' = "poll"
            /\ vr_overlay' = [vr_overlay EXCEPT !.shown = TRUE]
            /\ UNCHANGED main_exit
       ELSE Return("Err", "show", FALSE, vr_overlay)
    /\ UNCHANGED <<running, events, gpu_work, frame_capture>>
    /\ UNCHANGED <<pipeline_vars, projection_vars, converter_vars>>

\* while PollNextEvent(..) { .. }: with no event pending the inner loop
\* ends; otherwise the oldest event is taken: a press of button 33 breaks
\* out of the main loop, a Quit event is acknowledged and breaks out of it,
\* anything else is ignored and the poll is repeated.
PollNextEvent ==
    /\ pc = "poll"
    /\ IF events = <<>>
       THEN pc' = "check" /\ UNCHANGED <<events, main_exit, vr_overlay>>
       ELSE LET event == Head(events) IN
            /\ events' = Tail(events)
            /\ IF event.eventType = "VREvent_ButtonPress"
               THEN IF event.button = ExitButton
                    THEN Return("Ok", "button", FALSE, vr_overlay)
                    ELSE pc' = "poll" /\ UNCHANGED <<main_exit, vr_overlay>>
               ELSE IF event.eventType = "VREvent_Quit"
               THEN Return("Ok", "quit", TRUE, vr_overlay)
               ELSE pc' = "poll" /\ UNCHANGED <<main_exit, vr_overlay>>
    /\ UNCHANGED <<running, gpu_work, frame_capture>>
    /\ UNCHANGED <<pipeline_vars, projection_vars, converter_vars>>

\* Faulty variant: the flag is not looked at.
CheckRunningIgnored ==
    /\ pc = "check"
    /\ pc' = "sleep"
    /\ UNCHANGED <<main_exit, vr_overlay>>
    /\ UNCHANGED <<running, events, gpu_work, frame_capture>>
    /\ UNCHANGED <<pipeline_vars, projection_vars, converter_vars>>

\* if !running.load(Relaxed) { break; }
CheckRunning ==
    /\ pc = "check"
    /\ IF ~running
       THEN Return("Ok", "running", FALSE, vr_overlay)
       ELSE pc' = "sleep" /\ UNCHANGED <<main_exit, vr_overlay>>
    /\ UNCHANGED <<running, events, gpu_work, frame_capture>>
    /\ UNCHANGED <<pipeline_vars, projection_vars, converter_vars>>

\* std::thread::sleep(Duration::from_millis(20)), then the next iteration.
Sleep ==
    /\ pc = "sleep"
    /\ pc' = "poll"
    /\ UNCHANGED <<running, events, gpu_work, frame_capture, vr_overlay, main_exit>>
    /\ UNCHANGED <<pipeline_vars, projection_vars, converter_vars>>

\* The handler installed by ctrlc::set_handler: r.store(false, Relaxed).
\* It runs on its own thread, at any time after it is installed and while
\* the process lives.
CtrlC ==
    /\ pc \notin {"setup", "exited"}
    /\ running
    /\ running' = FALSE
    /\ UNCHANGED <<pc, events, gpu_work, frame_capture, vr_overlay, main_exit>>
    /\ UNCHANGED <<pipeline_vars, projection_vars, converter_vars>>

\* The VR runtime queues an event for the application.
VREvent(event) ==
    /\ pc \notin {"setup", "exited"}
    /\ Len(events) < MaxEvents
    /\ events' = Append(events, event)
    /\ UNCHANGED <<pc, running, gpu_work, frame_capture, vr_overlay, main_exit>>
    /\ UNCHANGED <<pipeline_vars, projection_vars, converter_vars>>

\* The steps of the main thread.
MainThread ==
    \/ \E ok \in BOOLEAN : Setup(ok)
    \/ \E fail \in {"none", "vs", "fs", "pipeline", "src", "desc_set"} :
            CreateConverter(fail)
    \/ \E fail \in {"none", "next", "chunk", "dst", "execute"} : ConvertFrame(fail)
    \/ \E ok \in BOOLEAN : WaitFence(ok)
    \/ \E fail \in {"none", "create_overlay", "SetOverlayFlag"} : CreateOverlay(fail)
    \/ \E ok \in BOOLEAN : SetTexture(ok)
    \/ \E ok \in BOOLEAN : ShowOverlay(ok)
    \/ PollNextEvent
    \/ CheckRunning
    \/ Sleep

NextMain ==
    \/ MainThread
    \/ GpuFinish
    \/ CtrlC
    \/ \E event \in VREvents : VREvent(event)

SpecMain == Init /\ [][NextMain]_vars

\* The main thread is scheduled (its loop sleeps 20 ms and goes on), and
\* the queue executes the work submitted to it.
SpecMainLive == SpecMain /\ WF_vars(MainThread) /\ WF_vars(GpuFinish)

\* ------------------------------------------------------------ helpers
Bit(b) == IF b THEN 1 ELSE 0

\* Number of stages Pipeline::new constructed.
NStages == Bit(IsSome(yuv)) + Bit(IsSome(correction)) + Bit(IsSome(projection))

Subs == {submitted[i] : i \in 1..Len(submitted)}
FrameSubs(f) == {s \in Subs : s.frame = f}
Results == {results[k] : k \in 1..Len(results)}
Pending(s) == Id(s) \notin done
HandleDone(r) == <<r.frame, Target(r.handle)>> \in done

\* The submission a run() issued last.
IsLast(s) == \A t \in FrameSubs(s.frame) : t.seq <= s.seq

Rank(op) ==
    CASE op = "upload" -> 1
      [] op = "convert" -> 2
      [] op = "correct" -> 3
      [] op = "project" -> 4

StagePresent(op) ==
    CASE op = "upload" -> TRUE
      [] op = "convert" -> IsSome(yuv)
      [] op = "correct" -> IsSome(correction)
      [] op = "project" -> IsSome(projection)

\* The submissions of its run that s is transitively chained after.
RECURSIVE Ancestors(_, _)
Ancestors(f, seq) ==
    LET a == submitted[CHOOSE i \in 1..Len(submitted) :
                            submitted[i].frame = f /\ submitted[i].seq = seq].after
    IN  IF a = 0 THEN {} ELSE {a} \cup Ancestors(f, a)

Touches(s) == {s.src, s.dst} \cap Intermediate

\* ------------------------------------------------------------- claims

\* C1 (as claimed): in every configuration with at least one stage, the
\* last stage a successful run() issues writes the externally supplied
\* output texture, never an intermediate texture.
C1_LastStageWritesOutput ==
    \A r \in Results :
        r.ok /\ NStages >= 1
            => \A s \in FrameSubs(r.frame) : IsLast(s) => s.dst = Output

\* C2 (as claimed): with no stage configured, once the handle of the latest
\* successful run() has completed the output texture holds the raw input
\* bytes of that run.
C2_NoStageOutputIsInput ==
    \A r \in Results :
        NStages = 0 /\ r.ok /\ r.frame = nframes /\ HandleDone(r)
            => content[Output] = [raw |-> FrameBytes(r.frame), stages |-> <<>>]

\* C3 (as claimed): the capture flag is false after every run() call
\* returns, whether the call succeeded or failed.
C3_CaptureClearedByRun ==
    [][nframes' # nframes => capture' = FALSE]_vars

\* C4: the submissions of a run() follow the order upload, convert,
\* correct, project: the first is the upload, ranks strictly increase in
\* issue order (nothing reordered or issued twice), only stages that were
\* constructed are issued, and a successful run() issues every one of them.
C4_StageOrder ==
    /\ \A i, j \in 1..Len(submitted) :
            i < j /\ submitted[i].frame = submitted[j].frame
                => /\ Rank(submitted[i].op) < Rank(submitted[j].op)
                   /\ submitted[i].seq < submitted[j].seq
    /\ \A s \in Subs : StagePresent(s.op) /\ (s.seq = 1 <=> s.op = "upload")
    /\ \A r \in Results :
            r.ok => {s.op : s \in FrameSubs(r.frame)}
                        = {op \in {"upload", "convert", "correct", "project"} :
                                StagePresent(op)}

\* A successful run() of a pipeline with all three stages.
C4_Witness ==
    \E r \in Results :
        /\ r.ok
        /\ NStages = 3
        /\ Cardinality(FrameSubs(r.frame)) = 4

\* C5: when the handle a run() returned has completed, the upload and
\* every stage submission of that run have completed, whatever Left/Right
\* wrappers the handle carries.
C5_HandleCoversChain ==
    \A r \in Results :
        r.ok /\ HandleDone(r) => \A s \in FrameSubs(r.frame) : ~Pending(s)

\* A completed handle wrapped both ways over a chain of three submissions.
C5_Witness ==
    \E r \in Results :
        /\ r.ok
        /\ HandleDone(r)
        /\ Cardinality(FrameSubs(r.frame)) = 3
        /\ \E a, b \in 1..Len(r.handle.wrap) :
                r.handle.wrap[a] = "Left" /\ r.handle.wrap[b] = "Right"

\* C6 (as claimed): whatever sequence of run() calls is made, the upload of
\* frame k+1 and a submission of frame k are never both pending on the
\* same intermediate texture.
C6_NoOverlap ==
    \A u, s \in Subs :
        /\ u.op = "upload"
        /\ u.frame = s.frame + 1
        /\ Pending(u)
        /\ Pending(s)
        => Touches(u) \cap Touches(s) = {}

\* C6 (amended): when run() for frame k+1 is called after the handle of
\* frame k has completed (or frame k returned no handle), the upload of
\* frame k+1 and a submission of frame k are never both pending on the same
\* intermediate texture.
C6_NoOverlapAfterWait ==
    \A r \in Results :
        r.previous # "pending"
            => \A u \in FrameSubs(r.frame), s \in FrameSubs(r.frame - 1) :
                    u.op = "upload" /\ Pending(u) /\ Pending(s)
                        => Touches(u) \cap Touches(s) = {}

\* The second frame's upload is pending, and run() was called for it after
\* the first frame's handle had completed.
C6_Witness ==
    \E r \in Results :
        /\ r.frame >= 2
        /\ r.previous = "complete"
        /\ \E u \in FrameSubs(r.frame) : u.op = "upload" /\ Pending(u)

\* C7: within one run() no submission reads and writes the same texture,
\* and two submissions that touch the same intermediate texture are
\* chained, the later one (transitively) after the earlier one.
C7_NoTextureConflict ==
    /\ \A s \in Subs : s.src # s.dst
    /\ \A s, t \in Subs :
            /\ s.frame = t.frame
            /\ s.seq < t.seq
            /\ Touches(s) \cap Touches(t) # {}
            => s.seq \in Ancestors(t.frame, t.seq)

\* A run() with all three stages whose four submissions are all pending.
C7_Witness ==
    \E r \in Results :
        /\ r.ok
        /\ Cardinality(FrameSubs(r.frame)) = 4
        /\ \A s \in FrameSubs(r.frame) : Pending(s)

\* C8: a run() that returns a handle has waited for nothing: none of the
\* submissions it issued is retired when it returns, it retires no earlier
\* submission and it leaves every texture as it was.
C8_RunDoesNotWait ==
    [][(nframes' # nframes /\ results'[Len(results')].ok)
        => /\ \A i \in 1..Len(submitted') :
                submitted'[i].frame = nframes' => Id(submitted'[i]) \notin done'
           /\ done' \subseteq done
           /\ content' = content]_vars

\* run() has returned a handle over three submissions, none of them retired.
C8_Witness ==
    \E r \in Results :
        /\ r.ok
        /\ r.frame = nframes
        /\ Cardinality(FrameSubs(r.frame)) = 3
        /\ \A s \in FrameSubs(r.frame) : Pending(s)

\* C9: after Pipeline::new has constructed N stages, texture_id = N mod 2.
C9_ParityIsStageCount ==
    phase = "ready" => texture_id = NStages % 2

\* A pipeline with three stages (parity 1) has been constructed.
C9_Witness ==
    phase = "ready" /\ NStages = 3 /\ texture_id = 1

\* C10: a set_ipd call that changes the IPD changes nothing else (not the
\* projection parameters, not a submission already issued); no step alters
\* a submission already issued; and every projection a run() issues
\* carries the IPD most recently set.
C10_SetIpdAffectsLaterRunsOnly ==
    [][/\ (phase = "ready" /\ ipd' # ipd)
            => UNCHANGED <<projection_params, nframes, submitted, done, content, results>>
       /\ \A i \in 1..Len(submitted') :
            IF submitted'[i].frame <= nframes
            THEN \E j \in 1..Len(submitted) : submitted[j] = submitted'[i]
            ELSE submitted'[i].op = "project" => submitted'[i].ipd = ipd]_vars

\* Two runs issued projections with different IPDs; the earlier one is
\* still pending and the later one carries the current IPD.
C10_Witness ==
    \E s, t \in Subs :
        /\ s.op = "project"
        /\ t.op = "project"
        /\ s.frame < t.frame
        /\ Pending(s)
        /\ s.ipd # t.ipd
        /\ t.ipd = ipd

\* The stages the submissions of run() number f went through, in issue
\* order, each as <<op, src, dst>>.
Route(f) ==
    LET subs == SelectSeq(submitted, LAMBDA s : s.frame = f)
    IN  [i \in 1..Len(subs) |-> <<subs[i].op, subs[i].src, subs[i].dst>>]

\* The route of a run() on a freshly constructed Pipeline of the current
\* configuration.
FreshRoute ==
    LET y == IsSome(yuv)
        c == IsSome(correction)
        p == IsSome(projection)
        up == << <<"upload", Host, "t0">> >>
        cv == IF y THEN << <<"convert", "t0", "t1">> >> ELSE <<>>
        cr == IF c
              THEN << <<"correct",
                        IF y THEN "t1" ELSE "t0",
                        IF p THEN (IF y THEN "t0" ELSE "t1") ELSE Output>> >>
              ELSE <<>>
        pj == IF p
              THEN << <<"project", IF y = c THEN "t0" ELSE "t1", Output>> >>
              ELSE <<>>
    IN  up \o cv \o cr \o pj

IsPrefix(a, b) == Len(a) <= Len(b) /\ a = SubSeq(b, 1, Len(a))

\* C16: when calculate_mvp is called with a pose whose composition with the
\* eye (or camera) transform of either eye is singular, run() panics: it
\* returns neither a handle nor an error value, and that frame has no
\* projection submission.
C16_SingularPosePanics ==
    \A r \in Results :
        LET eyes == IF projection_params.mode = "FromEye"
                    THEN EyeToHead ELSE <<left_cam, right_cam>>
        IN  (/\ r.pose # NoMatrix
             /\ \/ Det(Mul(r.pose, eyes[1])) = 0
                \/ Det(Mul(r.pose, eyes[2])) = 0)
            => /\ phase = "panicked"
               /\ ~r.ok
               /\ r.handle = NoFuture
               /\ \A s \in FrameSubs(r.frame) : s.op # "project"

\* run() panicked on a degenerate pose after issuing the earlier stages.
C16_Witness ==
    /\ phase = "panicked"
    /\ \E r \in Results :
            /\ r.pose = Matrix(0, 0, 0, 1)
            /\ Cardinality(FrameSubs(r.frame)) = 3

\* C17: every successful run(), whether it is the first on the Pipeline or
\* follows a failed one, issues the route of a fresh Pipeline; a run() that
\* failed issued a proper prefix of that route: no step twice, and none
\* after the failing one.
C17_UsableAfterError ==
    \A r \in Results :
        IF r.ok
        THEN Route(r.frame) = FreshRoute
        ELSE /\ IsPrefix(Route(r.frame), FreshRoute)
             /\ Len(Route(r.frame)) < Len(FreshRoute)

\* The second run() succeeded with all three stages after the first one
\* returned an error.
C17_Witness ==
    \E r \in Results :
        /\ r.frame = 2
        /\ r.ok
        /\ r.previous = "none"
        /\ Len(Route(r.frame)) = 4

\* C18: the corrector draws into the output texture exactly when no
\* projector is configured, and otherwise into an intermediate texture
\* that is not the corrector's own source.
C18_CorrectorDestination ==
    \A s \in Subs :
        s.op = "correct"
            => /\ s.src = correction
               /\ s.dst = Output <=> ~IsSome(projection)
               /\ IsSome(projection) => s.dst \in Intermediate /\ s.dst # s.src

\* A corrector followed by a projector has drawn into an intermediate texture.
C18_Witness ==
    \E s \in Subs :
        s.op = "correct" /\ IsSome(projection) /\ s.dst \in Intermediate /\ ~Pending(s)

\* C19 (as documented): with all three stages the upload goes to an
\* internal texture, the conversion writes textures[0], the correction
\* reads textures[0] and writes textures[1], and the projection reads
\* textures[1] and writes the output.
C19_DocumentedRouting ==
    \A r \in Results :
        r.ok /\ NStages = 3
            => \A s \in FrameSubs(r.frame) :
                    /\ s.op = "upload" => s.dst \in Intermediate
                    /\ s.op = "convert" => s.dst = textures[0]
                    /\ s.op = "correct" => s.src = textures[0] /\ s.dst = textures[1]
                    /\ s.op = "project" => s.src = textures[1] /\ s.dst = Output

\* C11: Projection::new returns Err for every source whose width is not
\* twice its height, having created no shader, render pass or pipeline.
C11_RejectsNonStereoSource ==
    (/\ new_projection.result # "none"
     /\ new_projection.source[1] # 2 * new_projection.source[2])
        => /\ new_projection.result = "Err"
           /\ new_projection.created = <<>>

\* Projection::new was called over a square source and returned Err.
C11_Witness ==
    /\ new_projection.result = "Err"
    /\ new_projection.source[1] = new_projection.source[2]
    /\ new_projection.created = <<>>

\* The arguments of a calculate_mvp call.
MvpArgs(c) ==
    <<c.mode, c.overlay_transform, c.camera_fov, c.frame_time, c.time_origin>>

\* The outcome of a calculate_mvp call.
MvpResult(c) == <<c.panic, c.mvps>>

\* C15 (as claimed): two calls of calculate_mvp with identical arguments
\* have identical outcomes, whatever the clock and the VR runtime did
\* between them.
C15_MvpIsPure ==
    [][(/\ mvp_call.called
        /\ mvp_call' # mvp_call
        /\ MvpArgs(mvp_call)' = MvpArgs(mvp_call))
            => MvpResult(mvp_call)' = MvpResult(mvp_call)]_vars

\* Both composed eye matrices of a calculate_mvp call are invertible.
Invertible(c) ==
    LET eyes == IF c.mode = "FromEye" THEN EyeToHeadTransform
                ELSE <<left_cam, right_cam>>
    IN  Det(Mul(c.pose, eyes[1])) # 0 /\ Det(Mul(c.pose, eyes[2])) # 0

\* C20 (as claimed): for every time_origin and frame_time, the pose is
\* queried at the offset -(now - time_origin - frame_time), which is never
\* positive, and calculate_mvp returns a matrix pair.
C20_OffsetAndPairAlways ==
    mvp_call.called
        => /\ mvp_call.queried
           /\ mvp_call.offset = 0 - (mvp_call.now - mvp_call.time_origin
                                        - mvp_call.frame_time)
           /\ mvp_call.offset <= 0
           /\ ~mvp_call.panic

\* C20 (amended): when frame_time is not longer than the time since
\* time_origin, the pose is queried at -(now - time_origin - frame_time),
\* which is never positive, and a matrix pair is returned exactly when both
\* composed eye matrices are invertible; a longer frame_time panics before
\* any pose is queried.
C20_OffsetWhenFrameInPast ==
    mvp_call.called
        => IF mvp_call.frame_time <= mvp_call.now - mvp_call.time_origin
           THEN /\ mvp_call.queried
                /\ mvp_call.offset = 0 - (mvp_call.now - mvp_call.time_origin
                                             - mvp_call.frame_time)
                /\ mvp_call.offset <= 0
                /\ ~mvp_call.panic <=> Invertible(mvp_call)
                /\ ~mvp_call.panic => Len(mvp_call.mvps) = 2
           ELSE mvp_call.panic /\ ~mvp_call.queried

\* A pose was queried at a negative offset and a matrix pair came back.
C20_Witness ==
    /\ mvp_call.called
    /\ mvp_call.queried
    /\ mvp_call.offset < 0
    /\ ~mvp_call.panic
    /\ mvp_call.time_origin > 0

\* C12: GpuYuyvConverter::new returns Err for every odd width, having
\* created nothing, and for an even width with no GPU failure returns a
\* converter whose packed source texture is (width / 2, height).
C12_EvenWidthOnly ==
    new_converter.result # "none"
        => IF new_converter.w % 2 = 1
           THEN new_converter.result = "Err" /\ new_converter.created = <<>>
           ELSE new_converter.fail = "none"
                    => /\ new_converter.result = "Ok"
                       /\ 2 * new_converter.src[1] = new_converter.w
                       /\ new_converter.src[2] = new_converter.h

\* GpuYuyvConverter::new has returned Err for an odd width although no
\* GPU object failed.
C12_Witness ==
    /\ new_converter.result = "Err"
    /\ new_converter.w % 2 = 1
    /\ new_converter.fail = "none"

C14_ExactInputLength ==
    (conversion.called /\ conversion.entry = "main")
        => /\ conversion.len # 2 * new_converter.w * new_converter.h
                => conversion.result = "Err"
           /\ conversion.result = "Ok"
                => ImageBytes(conversion.dst) = 4 * new_converter.w * new_converter.h

\* C26: in every constructed Pipeline, whatever run(), set_ipd() and
\* capture_next_frame() calls were made, the projection parameters are
\* present exactly when the projector is, and no run() has panicked on the
\* unwrap of the parameters: a run() that panicked had reached
\* calculate_mvp.
C26_ParamsIffProjector ==
    phase \in {"ready", "panicked"}
        => /\ projection_params.present <=> IsSome(projection)
           /\ phase = "panicked"
                => \A r \in Results : r.frame = nframes => r.pose # NoMatrix

\* The second run() of a Pipeline with a projector has gone through the
\* unwrap and issued its projection, after set_ipd and capture_next_frame.
C26_Witness ==
    /\ phase = "ready"
    /\ capture
    /\ ipd # projection_params.ipd
    /\ projection_params.present
    /\ \E s \in Subs : s.op = "project" /\ s.frame = 2

\* The transform calculate_mvp composed with the pose `transform` to arrive
\* at `mvp`: mvp = camera_projection * (transform * eye)^-1 * overlay,
\* solved for eye.
ComposedWith(mvp, transform, camera_fov, overlay_transform) ==
    Mul(try_inverse(transform),
        try_inverse(Mul(Mul(try_inverse(camera_projection(camera_fov)), mvp),
                        try_inverse(overlay_transform))))

\* C22: once the Pipeline is constructed no run(), set_ipd() or other call
\* changes the projection mode, and the matrices a run() computes are those
\* of the pose composed with the runtime-reported eye-to-head transforms
\* exactly when the mode is FromEye and with the fixed camera offsets
\* exactly when it is FromCamera.
C22_ModeFixed ==
    [][/\ phase = "ready" => projection_params'.mode = projection_params.mode
       /\ (/\ nframes' # nframes
           /\ phase' = "ready"
           /\ results'[Len(results')].pose # NoMatrix)
            => LET pose == results'[Len(results')].pose
                   used == <<ComposedWith(projection_params'.mvps[1], pose, Fov,
                                          OverlayTransform),
                             ComposedWith(projection_params'.mvps[2], pose, Fov,
                                          OverlayTransform)>>
               IN  /\ used = EyeToHead <=> projection_params.mode = "FromEye"
                   /\ used = <<left_cam, right_cam>>
                        <=> projection_params.mode = "FromCamera"]_vars

\* Both modes have been through a run(): one Pipeline in FromEye mode holds
\* matrices computed by its second run(), after a set_ipd.
C22_Witness ==
    /\ phase = "ready"
    /\ nframes = 2
    /\ projection_params.mode = "FromEye"
    /\ projection_params.ipd # 0
    /\ projection_params.mvps = <<camera_projection(Fov), camera_projection(Fov)>>
    /\ \E s \in Subs : s.op = "project" /\ s.frame = 2

\* The source texture a stage was constructed over in Pipeline::new.
BoundSource(op) ==
    CASE op = "convert" -> yuv
      [] op = "correct" -> correction
      [] op = "project" -> projection

\* C25: in every configuration, each stage submission of a run() reads the
\* texture its stage was constructed over, and that texture is the
\* destination of the submission issued just before it in the same run(),
\* which it is chained after: no stage reads a texture that was not
\* written earlier in the same frame.
C25_SourceWrittenByPrecedingStep ==
    \A s \in Subs :
        s.op # "upload"
            => /\ s.src = BoundSource(s.op)
               /\ s.src \in Intermediate
               /\ \E t \in FrameSubs(s.frame) :
                    /\ t.seq = s.seq - 1
                    /\ t.dst = s.src
                    /\ t.seq \in Ancestors(s.frame, s.seq)

\* A Pipeline with a corrector and a projector but no converter has run:
\* the upload, the correction and the projection have all been retired.
C25_Witness ==
    /\ ~IsSome(yuv)
    /\ IsSome(correction)
    /\ IsSome(projection)
    /\ \E r \in Results :
            /\ r.ok
            /\ Cardinality(FrameSubs(r.frame)) = 3
            /\ \A s \in FrameSubs(r.frame) : ~Pending(s)

\* C24 (as claimed): whenever run() starts a debug capture (flag set and
\* capture tool present), the start is made before the upload and a
\* matching stop is made after the last stage, before run() returns, so
\* that no capture is left open; a run() with the flag clear makes no call
\* into the capture tool.
C24_CaptureBrackets ==
    [][nframes' # nframes
        => LET r == results'[Len(results')]
               subs == SelectSeq(submitted', LAMBDA s : s.frame = nframes')
               calls == RenderDocCalls([err |-> ~r.ok, issued |-> subs])
           IN  /\ (capture /\ render_doc)
                    => /\ calls = <<RenderDocCall("start_frame_capture", 0),
                                    RenderDocCall("end_frame_capture", 1 + NStages)>>
                       /\ ~capturing'
               /\ ~capture => calls = <<>> /\ capturing' = capturing]_vars

\* C23: a Pipeline owns exactly two intermediate textures, both of width
\* 2 * CAMERA_SIZE and height CAMERA_SIZE; after any run() calls they are
\* the same two textures of the same size, every submission reads and
\* writes only these two textures, the host buffer and the output, and
\* Pipeline::new never fails on the width = 2 * height check of
\* Projection::new.
C23_TwoStereoTextures ==
    /\ new_error # "Projection::new"
    /\ phase \in {"ready", "panicked"}
        => /\ Cardinality(DOMAIN texture_dimensions) = 2
           /\ \A t \in DOMAIN texture_dimensions :
                /\ texture_dimensions[t] = <<2 * CAMERA_SIZE, CAMERA_SIZE>>
                /\ texture_dimensions[t][1] = 2 * texture_dimensions[t][2]
           /\ \A s \in Subs :
                /\ s.src \in DOMAIN texture_dimensions \cup {Host}
                /\ s.dst \in DOMAIN texture_dimensions \cup {Output}

\* A Pipeline with a projector was constructed over a stereo texture, and
\* two run() calls have issued projections from it.
C23_Witness ==
    /\ phase = "ready"
    /\ IsSome(projection)
    /\ texture_dimensions[projection] = <<2 * CAMERA_SIZE, CAMERA_SIZE>>
    /\ nframes = 2
    /\ \E s \in Subs : s.op = "project" /\ s.frame = 2 /\ s.src = projection

\* The columns a draw is restricted to.
Columns(d) == {x \in 0..(2 * MaxDim) : d.origin <= x /\ x < d.origin + d.width}

\* C21 (as claimed): a successful Projection::project records, in one
\* command list chained after the prior handle, first a copy of the whole
\* source into the destination, then the left-eye draw restricted to the
\* columns [0, w/2), then the right-eye draw restricted to [w/2, w), where
\* w is the width of the destination: the two viewports are disjoint and
\* together cover the full width of the destination.
C21_CopyThenTwoHalves ==
    (projected.called /\ projected.result = "Ok")
        => LET w == projected.output[1]
               cmds == projected.commands
           IN  /\ projected.lists = 1
               /\ projected.after = projected.prior
               /\ Len(cmds) = 3
               /\ cmds[1] = [cmd |-> "copy_image", extent |-> projected.source]
               /\ cmds[2].cmd = "draw" /\ cmds[2].eye = "left"
               /\ cmds[3].cmd = "draw" /\ cmds[3].eye = "right"
               /\ Columns(cmds[2]) = {x \in 0..(2 * MaxDim) : x < w \div 2}
               /\ Columns(cmds[3]) = {x \in 0..(2 * MaxDim) : w \div 2 <= x /\ x < w}
               /\ Columns(cmds[2]) \cap Columns(cmds[3]) = {}
               /\ Columns(cmds[2]) \cup Columns(cmds[3]) = 0..(w - 1)

\* C28: the image is handed to the overlay only when the conversion's GPU
\* work has completed and the fence wait has returned (the capture that
\* brackets it has ended); and when the conversion or the wait returns Err
\* the overlay is never created, given a texture or shown.
C28_TextureAfterFence ==
    /\ vr_overlay.texture # NoOverlay.texture
        => /\ vr_overlay.work = "complete"
           /\ gpu_work = "complete"
           /\ frame_capture = "ended"
    /\ (main_exit.status = "Err" /\ main_exit.at \in {"convert", "wait"})
        => vr_overlay = NoOverlay

\* The overlay is shown with the converted image as its texture.
C28_Witness ==
    /\ vr_overlay.created
    /\ vr_overlay.shown
    /\ vr_overlay.texture = CameraFormat
    /\ vr_overlay.work = "complete"
    /\ pc = "poll"

\* C27: the running flag is examined only when a poll has found no event
\* pending; a Quit event is acknowledged and ends the loop, and so does a
\* press of button 33; and, provided the poll reports no pending event
\* again and again, once the Ctrl-C handler has cleared the flag main()
\* eventually returns.
C27_CtrlCTerminates ==
    /\ [][/\ (pc' = "check" /\ pc # "check") => (pc = "poll" /\ events = <<>>)
          /\ (pc' = "exited" /\ pc # "exited" /\ main_exit'.at = "running")
                => (pc = "check" /\ ~running)
          /\ (pc = "poll" /\ events # <<>> /\ events' = Tail(events))
                => /\ Head(events).eventType = "VREvent_Quit"
                        => /\ pc' = "exited"
                           /\ main_exit' = [status |-> "Ok", at |-> "quit",
                                            quit_acknowledged |-> TRUE]
                   /\ Head(events) = [eventType |-> "VREvent_ButtonPress",
                                      button |-> ExitButton]
                        => pc' = "exited" /\ main_exit'.status = "Ok"]_vars
    /\ ([]<>(pc \in {"check", "exited"})) => (~running ~> pc = "exited")

\* main() returned Ok because the flag was found cleared, with the overlay
\* on show.
C27_Witness ==
    /\ pc = "exited"
    /\ ~running
    /\ main_exit = [status |-> "Ok", at |-> "running", quit_acknowledged |-> FALSE]
    /\ vr_overlay.shown

====
